---- MODULE Spec2Model ----
(***************************************************************************)
(* Model of package logger (src/logger.go): seven level-gated NotePads     *)
(* that route log lines to a log sink, a console sink, both or nowhere,    *)
(* depending on two thresholds.                                            *)
(*                                                                         *)
(* An io.Writer value is modelled as the sequence of base sinks a Write on *)
(* it reaches, in order: ioutil.Discard is <<0>>, os.Stdout is <<1>>, the  *)
(* n-th *os.File returned by os.OpenFile is <<FirstFd + n - 1>>, and       *)
(* io.MultiWriter(a, b) is the concatenation a \o b.                       *)
(***************************************************************************)
EXTENDS Integers, Sequences, FiniteSets

\* ---------------------------------------------------------------- bounds
\* Arguments handed to SetLogThreshold / SetStdoutThreshold range over
\* LevelTrace - ArgsBelowTrace .. MaxLevelArg (Level is an int, so any integer
\* is admissible).
ArgsBelowTrace == 1
MaxLevelArg == 8
\* Flag arguments range over 0..MaxFlag (0 is no timestamp, 1 is log.Ldate).
MaxFlag == 1
\* Number of paths SetLogFile is called with, and of successful opens.
MaxPaths == 2
MaxOpens == 2

\* ------------------------------------------------------------- constants
LevelTrace == 0
LevelDebug == 1
LevelInfo == 2
LevelWarn == 3
LevelError == 4
LevelCritical == 5
LevelFatal == 6
LevelNone == 7

DefaultLogThreshold == LevelInfo
DefaultStdoutThreshold == LevelInfo
\* log.Ldate | log.Ltime
DefaultFlag == 3

\* The levels that own a NotePad (NotePads slice, TRACE .. FATAL).
Levels == LevelTrace..LevelFatal
LevelArgs == (LevelTrace - ArgsBelowTrace)..MaxLevelArg
Flags == 0..MaxFlag
Paths == 1..MaxPaths
ConcArgs == (LevelTrace - ArgsBelowTrace)..MaxLevelArg

\* Base sinks.
DiscardSink == 0
StdoutSink == 1
FirstFd == 2

\* io.Writer values.
Discard == <<DiscardSink>>
Stdout == <<StdoutSink>>
FileWriter(fd) == <<fd>>
MultiWriter(a, b) == a \o b

\* Prefix of each NotePad.
Prefix(level) ==
    CASE level = LevelTrace -> "[T]: "
      [] level = LevelDebug -> "[D]: "
      [] level = LevelInfo -> "[I]: "
      [] level = LevelWarn -> "[W]: "
      [] level = LevelError -> "[E]: "
      [] level = LevelCritical -> "[C]: "
      [] level = LevelFatal -> "[F]: "

\* log.New(out, prefix, flag)
NewLogger(out, prefix, flag) == [out |-> out, prefix |-> prefix, flag |-> flag]

VARIABLES
    logThreshold,     \* package variable logThreshold
    outputThreshold,  \* package variable outputThreshold
    LogHandle,        \* package variable LogHandle
    OutHandle,        \* package variable OutHandle
    BothHandle,       \* package variable BothHandle
    Flag,             \* package variable Flag
    NotePads,         \* Levels -> [Level, Prefix, Handle, Logger]
    openFiles,        \* file descriptors opened by os.OpenFile and not closed
    fdPath,           \* the path each descriptor was opened on
    wrote,            \* the Writes performed by the most recent call, in order
    op,               \* the most recent call: its name, argument and outcome
    halted,           \* the process has terminated (os.Exit or unrecovered panic)
    pc,               \* concurrent scenario: position of each thread
    idx,              \* concurrent scenario: loop index of each thread
    tmp,              \* concurrent scenario: handle read by each thread in the second loop
    arg,              \* concurrent scenario: argument of each thread's call
    overlapped        \* concurrent scenario: the two calls overlapped in time

cfgVars == <<logThreshold, outputThreshold, LogHandle, OutHandle, BothHandle, Flag, NotePads>>
fileVars == <<openFiles, fdPath>>
callVars == <<wrote, op, halted>>
concVars == <<pc, idx, tmp, arg, overlapped>>
vars == <<cfgVars, fileVars, callVars, concVars>>

\* ------------------------------------------------------------ initialize
\* The if / else-if chain of initialize for one NotePad.
Resolve_swapped(level, outT, logT, logH, outH, bothH) ==
    IF level < outT /\ level < logT THEN Discard
    ELSE IF level >= outT /\ level >= logT THEN bothH
    ELSE IF level >= outT /\ level < logT THEN logH
    ELSE outH

Resolve(level, outT, logT, logH, outH, bothH) ==
    IF level < outT /\ level < logT THEN Discard
    ELSE IF level >= outT /\ level >= logT THEN bothH
    ELSE IF level >= outT /\ level < logT THEN outH
    ELSE logH

\* Both loops of initialize applied to the NotePads pads.
Rebuild(pads, outT, logT, logH, outH, bothH, flag) ==
    [l \in Levels |->
        LET h == Resolve(pads[l].Level, outT, logT, logH, outH, bothH)
        IN  [pads[l] EXCEPT !.Handle = h,
                            !.Logger = NewLogger(h, pads[l].Prefix, flag)]]

\* initialize(), run on the values the calling setter has just assigned.
initialize ==
    /\ BothHandle' = MultiWriter(LogHandle', OutHandle')
    /\ NotePads' = Rebuild(NotePads, outputThreshold', logThreshold',
                           LogHandle', OutHandle', BothHandle', Flag')

\* The package-level var block: every NotePad starts on os.Stdout with the
\* nil logger; init() then calls initialize().
VarBlockNotePads ==
    [l \in Levels |-> [Level |-> l, Prefix |-> Prefix(l), Handle |-> Stdout,
                       Logger |-> NewLogger(<<>>, "", 0)]]

NoOp == [name |-> "init", arg |-> 0, ret |-> "nil"]

Threads == {"SetLogThreshold", "SetStdoutThreshold"}

InitConfig ==
    /\ logThreshold = DefaultLogThreshold
    /\ outputThreshold = DefaultStdoutThreshold
    /\ LogHandle = Discard
    /\ OutHandle = Stdout
    /\ BothHandle = MultiWriter(Discard, Stdout)
    /\ Flag = DefaultFlag
    /\ NotePads = Rebuild(VarBlockNotePads, DefaultStdoutThreshold, DefaultLogThreshold,
                          Discard, Stdout, MultiWriter(Discard, Stdout), DefaultFlag)
    /\ openFiles = {}
    /\ fdPath = <<>>
    /\ wrote = <<>>
    /\ op = NoOp
    /\ halted = FALSE

Init ==
    /\ InitConfig
    /\ pc = [t \in Threads |-> "done"]
    /\ idx = [t \in Threads |-> 0]
    /\ tmp = [t \in Threads |-> <<>>]
    /\ arg = [t \in Threads |-> 0]
    /\ overlapped = FALSE

\* ----------------------------------------------------------------- emit
checkLevel_or(n) ==
    IF n.Level < outputThreshold \/ n.Level < logThreshold THEN FALSE ELSE TRUE

checkLevel(n) ==
    IF n.Level < outputThreshold /\ n.Level < logThreshold THEN FALSE ELSE TRUE

\* log.Logger.Output: one line, written to every base sink of l.out in order.
Output(l, text) ==
    [i \in 1..Len(l.out) |->
        [sink |-> l.out[i], prefix |-> l.prefix, flag |-> l.flag, text |-> text]]

\* The Writes of CRITICAL.Println(...) / n.Println(...) under the current state.
PrintlnWrites(n, text) == IF checkLevel(n) THEN Output(n.Logger, text) ELSE <<>>

PrintVariant(level, name) ==
    /\ ~halted
    /\ wrote' = IF checkLevel(NotePads[level]) THEN Output(NotePads[level].Logger, name) ELSE <<>>
    /\ op' = [name |-> name, arg |-> level, ret |-> "nil"]
    /\ UNCHANGED <<cfgVars, fileVars, halted, concVars>>

NotePad_Print(level) == PrintVariant(level, "Print")
NotePad_Printf(level) == PrintVariant(level, "Printf")
NotePad_Println(level) == PrintVariant(level, "Println")

\* Fatal*: guarded by checkLevel, then Logger.Fatal* = Output + os.Exit(1).
FatalVariant(level, name) ==
    /\ ~halted
    /\ IF checkLevel(NotePads[level])
       THEN /\ wrote' = Output(NotePads[level].Logger, name)
            /\ op' = [name |-> name, arg |-> level, ret |-> "exit"]
            /\ halted' = TRUE
       ELSE /\ wrote' = <<>>
            /\ op' = [name |-> name, arg |-> level, ret |-> "nil"]
            /\ halted' = FALSE
    /\ UNCHANGED <<cfgVars, fileVars, concVars>>

NotePad_Fatal(level) == FatalVariant(level, "Fatal")
NotePad_Fatalf(level) == FatalVariant(level, "Fatalf")
NotePad_Fatalln(level) == FatalVariant(level, "Fatalln")

\* Panic*: guarded by checkLevel, then Logger.Panic* = Output + panic(s).
\* The caller may recover the panic (the process goes on) or not.
PanicVariant(level, name) ==
    /\ ~halted
    /\ IF checkLevel(NotePads[level])
       THEN /\ wrote' = Output(NotePads[level].Logger, name)
            /\ op' = [name |-> name, arg |-> level, ret |-> "panic"]
            /\ halted' \in BOOLEAN
       ELSE /\ wrote' = <<>>
            /\ op' = [name |-> name, arg |-> level, ret |-> "nil"]
            /\ halted' = FALSE
    /\ UNCHANGED <<cfgVars, fileVars, concVars>>

NotePad_Panic(level) == PanicVariant(level, "Panic")
NotePad_Panicf(level) == PanicVariant(level, "Panicf")
NotePad_Panicln(level) == PanicVariant(level, "Panicln")

\* -------------------------------------------------------------- setters
levelCheck_toNone(level) ==
    IF level <= LevelTrace THEN LevelTrace
    ELSE IF level >= LevelFatal THEN LevelNone
    ELSE level

levelCheck_noUpper(level) ==
    IF level <= LevelTrace THEN LevelTrace
    ELSE level

levelCheck(level) ==
    IF level <= LevelTrace THEN LevelTrace
    ELSE IF level >= LevelFatal THEN LevelFatal
    ELSE level

\* A slip: the NotePads are rebuilt before the threshold is assigned.
SetLogThreshold_stale(level) ==
    /\ ~halted
    /\ logThreshold' = levelCheck(level)
    /\ BothHandle' = MultiWriter(LogHandle, OutHandle)
    /\ NotePads' = Rebuild(NotePads, outputThreshold, logThreshold,
                           LogHandle, OutHandle, BothHandle', Flag)
    /\ wrote' = <<>>
    /\ op' = [name |-> "SetLogThreshold", arg |-> level, ret |-> "nil"]
    /\ UNCHANGED <<outputThreshold, LogHandle, OutHandle, Flag, fileVars, halted, concVars>>

SetLogThreshold(level) ==
    /\ ~halted
    /\ logThreshold' = levelCheck(level)
    /\ UNCHANGED <<outputThreshold, LogHandle, OutHandle, Flag>>
    /\ initialize
    /\ wrote' = <<>>
    /\ op' = [name |-> "SetLogThreshold", arg |-> level, ret |-> "nil"]
    /\ UNCHANGED <<fileVars, halted, concVars>>

SetStdoutThreshold(level) ==
    /\ ~halted
    /\ outputThreshold' = levelCheck(level)
    /\ UNCHANGED <<logThreshold, LogHandle, OutHandle, Flag>>
    /\ initialize
    /\ wrote' = <<>>
    /\ op' = [name |-> "SetStdoutThreshold", arg |-> level, ret |-> "nil"]
    /\ UNCHANGED <<fileVars, halted, concVars>>

SetLogFlag(flag) ==
    /\ ~halted
    /\ Flag' = flag
    /\ UNCHANGED <<logThreshold, outputThreshold, LogHandle, OutHandle>>
    /\ initialize
    /\ wrote' = <<>>
    /\ op' = [name |-> "SetLogFlag", arg |-> flag, ret |-> "nil"]
    /\ UNCHANGED <<fileVars, halted, concVars>>

\* The descriptor the next successful os.OpenFile returns.
NextFd == FirstFd + Len(fdPath)

\* A slip: the sink is replaced before the error is looked at.
SetLogFile_early(path, ok) ==
    /\ ~halted
    /\ IF ok
       THEN /\ Len(fdPath) < MaxOpens
            /\ fdPath' = Append(fdPath, path)
            /\ openFiles' = openFiles \cup {NextFd}
            /\ LogHandle' = FileWriter(NextFd)
            /\ wrote' = <<>>
            /\ op' = [name |-> "SetLogFile", arg |-> path, ret |-> "nil"]
       ELSE /\ UNCHANGED fileVars
            /\ LogHandle' = Discard
            /\ wrote' = PrintlnWrites(NotePads[LevelCritical], "Failed to open log file:")
            /\ op' = [name |-> "SetLogFile", arg |-> path, ret |-> "error"]
    /\ UNCHANGED <<logThreshold, outputThreshold, OutHandle, Flag>>
    /\ initialize
    /\ UNCHANGED <<halted, concVars>>

\* A slip: the failure is returned without being logged.
SetLogFile_silent(path, ok) ==
    /\ ~halted
    /\ IF ok
       THEN /\ Len(fdPath) < MaxOpens
            /\ fdPath' = Append(fdPath, path)
            /\ openFiles' = openFiles \cup {NextFd}
            /\ LogHandle' = FileWriter(NextFd)
            /\ UNCHANGED <<logThreshold, outputThreshold, OutHandle, Flag>>
            /\ initialize
            /\ wrote' = <<>>
            /\ op' = [name |-> "SetLogFile", arg |-> path, ret |-> "nil"]
       ELSE /\ wrote' = <<>>
            /\ op' = [name |-> "SetLogFile", arg |-> path, ret |-> "error"]
            /\ UNCHANGED <<cfgVars, fileVars>>
    /\ UNCHANGED <<halted, concVars>>

\* SetLogFile(path); ok is whether os.OpenFile succeeds on path.
SetLogFile(path, ok) ==
    /\ ~halted
    /\ IF ok
       THEN /\ Len(fdPath) < MaxOpens
            /\ fdPath' = Append(fdPath, path)
            /\ openFiles' = openFiles \cup {NextFd}
            /\ LogHandle' = FileWriter(NextFd)
            /\ UNCHANGED <<logThreshold, outputThreshold, OutHandle, Flag>>
            /\ initialize
            /\ wrote' = <<>>
            /\ op' = [name |-> "SetLogFile", arg |-> path, ret |-> "nil"]
       ELSE /\ wrote' = PrintlnWrites(NotePads[LevelCritical], "Failed to open log file:")
            /\ op' = [name |-> "SetLogFile", arg |-> path, ret |-> "error"]
            /\ UNCHANGED <<cfgVars, fileVars>>
    /\ UNCHANGED <<halted, concVars>>

Next ==
    \/ \E level \in Levels : NotePad_Print(level)
    \/ \E level \in Levels : NotePad_Printf(level)
    \/ \E level \in Levels : NotePad_Println(level)
    \/ \E level \in Levels : NotePad_Fatal(level)
    \/ \E level \in Levels : NotePad_Fatalf(level)
    \/ \E level \in Levels : NotePad_Fatalln(level)
    \/ \E level \in Levels : NotePad_Panic(level)
    \/ \E level \in Levels : NotePad_Panicf(level)
    \/ \E level \in Levels : NotePad_Panicln(level)
    \/ \E level \in LevelArgs : SetLogThreshold(level)
    \/ \E level \in LevelArgs : SetStdoutThreshold(level)
    \/ \E flag \in Flags : SetLogFlag(flag)
    \/ \E path \in Paths, ok \in BOOLEAN : SetLogFile(path, ok)

Spec == Init /\ [][Next]_vars

\* ------------------------------------------- two setters run concurrently
\* Thread "SetLogThreshold" runs SetLogThreshold(arg), thread
\* "SetStdoutThreshold" runs SetStdoutThreshold(arg); every step below is one
\* read or one write of a shared variable.  pc is the statement about to be
\* run, idx the NotePad the running loop of initialize is at.
Other(t) == CHOOSE u \in Threads : u # t

Running(t) == pc[t] \notin {"start", "done"}

\* logThreshold = levelCheck(level)  /  outputThreshold = levelCheck(level)
T_Assign(t) ==
    /\ pc[t] = "start"
    /\ IF t = "SetLogThreshold"
       THEN logThreshold' = levelCheck(arg[t]) /\ UNCHANGED outputThreshold
       ELSE outputThreshold' = levelCheck(arg[t]) /\ UNCHANGED logThreshold
    /\ pc' = [pc EXCEPT ![t] = "both"]
    /\ overlapped' = (overlapped \/ Running(Other(t)))
    /\ UNCHANGED <<LogHandle, OutHandle, BothHandle, Flag, NotePads, fileVars, callVars, idx, tmp, arg>>

\* BothHandle = io.MultiWriter(LogHandle, OutHandle)
T_Both(t) ==
    /\ pc[t] = "both"
    /\ BothHandle' = MultiWriter(LogHandle, OutHandle)
    /\ pc' = [pc EXCEPT ![t] = "c1a"]
    /\ idx' = [idx EXCEPT ![t] = LevelTrace]
    /\ UNCHANGED <<logThreshold, outputThreshold, LogHandle, OutHandle, Flag, NotePads,
                   fileVars, callVars, tmp, arg, overlapped>>

\* One operand of a condition of the if / else-if chain: at position at the
\* operand holds iff cond, and control moves to yes or to no.
T_Test(t, at, cond, yes, no) ==
    /\ pc[t] = at
    /\ pc' = [pc EXCEPT ![t] = IF cond THEN yes ELSE no]
    /\ UNCHANGED <<cfgVars, fileVars, callVars, idx, tmp, arg, overlapped>>

\* if n.Level < outputThreshold && n.Level < logThreshold
T_If1Out(t) == T_Test(t, "c1a", NotePads[idx[t]].Level < outputThreshold, "c1b", "c2a")
T_If1Log(t) == T_Test(t, "c1b", NotePads[idx[t]].Level < logThreshold, "wD", "c2a")
\* else if n.Level >= outputThreshold && n.Level >= logThreshold
T_If2Out(t) == T_Test(t, "c2a", NotePads[idx[t]].Level >= outputThreshold, "c2b", "c3a")
T_If2Log(t) == T_Test(t, "c2b", NotePads[idx[t]].Level >= logThreshold, "wB", "c3a")
\* else if n.Level >= outputThreshold && n.Level < logThreshold
T_If3Out(t) == T_Test(t, "c3a", NotePads[idx[t]].Level >= outputThreshold, "c3b", "wL")
T_If3Log(t) == T_Test(t, "c3b", NotePads[idx[t]].Level < logThreshold, "wO", "wL")

\* A slip: the last branch assigns OutHandle.
T_SetHandle_else(t) ==
    /\ pc[t] \in {"wD", "wB", "wO", "wL"}
    /\ NotePads' = [NotePads EXCEPT ![idx[t]].Handle =
            CASE pc[t] = "wD" -> Discard
              [] pc[t] = "wB" -> BothHandle
              [] pc[t] = "wO" -> OutHandle
              [] pc[t] = "wL" -> OutHandle]
    /\ IF idx[t] < LevelFatal
       THEN pc' = [pc EXCEPT ![t] = "c1a"] /\ idx' = [idx EXCEPT ![t] = idx[t] + 1]
       ELSE pc' = [pc EXCEPT ![t] = "rd"] /\ idx' = [idx EXCEPT ![t] = LevelTrace]
    /\ UNCHANGED <<logThreshold, outputThreshold, LogHandle, OutHandle, BothHandle, Flag,
                   fileVars, callVars, tmp, arg, overlapped>>

\* n.Handle = ioutil.Discard / BothHandle / OutHandle / LogHandle, then the
\* next NotePad of the first loop, or the second loop.
T_SetHandle(t) ==
    /\ pc[t] \in {"wD", "wB", "wO", "wL"}
    /\ NotePads' = [NotePads EXCEPT ![idx[t]].Handle =
            CASE pc[t] = "wD" -> Discard
              [] pc[t] = "wB" -> BothHandle
              [] pc[t] = "wO" -> OutHandle
              [] pc[t] = "wL" -> LogHandle]
    /\ IF idx[t] < LevelFatal
       THEN pc' = [pc EXCEPT ![t] = "c1a"] /\ idx' = [idx EXCEPT ![t] = idx[t] + 1]
       ELSE pc' = [pc EXCEPT ![t] = "rd"] /\ idx' = [idx EXCEPT ![t] = LevelTrace]
    /\ UNCHANGED <<logThreshold, outputThreshold, LogHandle, OutHandle, BothHandle, Flag,
                   fileVars, callVars, tmp, arg, overlapped>>

\* second loop: the read of n.Handle ...
T_ReadHandle(t) ==
    /\ pc[t] = "rd"
    /\ tmp' = [tmp EXCEPT ![t] = NotePads[idx[t]].Handle]
    /\ pc' = [pc EXCEPT ![t] = "wr"]
    /\ UNCHANGED <<cfgVars, fileVars, callVars, idx, arg, overlapped>>

\* ... and n.Logger = log.New(n.Handle, n.Prefix, Flag); the call returns
\* after the last NotePad.
T_NewLogger(t) ==
    /\ pc[t] = "wr"
    /\ NotePads' = [NotePads EXCEPT ![idx[t]].Logger =
            NewLogger(tmp[t], NotePads[idx[t]].Prefix, Flag)]
    /\ tmp' = [tmp EXCEPT ![t] = <<>>]
    /\ IF idx[t] < LevelFatal
       THEN pc' = [pc EXCEPT ![t] = "rd"] /\ idx' = [idx EXCEPT ![t] = idx[t] + 1]
       ELSE pc' = [pc EXCEPT ![t] = "done"] /\ idx' = [idx EXCEPT ![t] = LevelTrace]
    /\ UNCHANGED <<logThreshold, outputThreshold, LogHandle, OutHandle, BothHandle, Flag,
                   fileVars, callVars, arg, overlapped>>

\* The two calls start either from the state init() leaves, or from the one
\* a successful SetLogFile on top of it leaves.
InitConc ==
    /\ logThreshold = DefaultLogThreshold
    /\ outputThreshold = DefaultStdoutThreshold
    /\ \E n \in 0..1 :
          /\ fdPath = [i \in 1..n |-> 1]
          /\ openFiles = {FirstFd + i - 1 : i \in 1..n}
          /\ LogHandle = IF n = 0 THEN Discard ELSE FileWriter(FirstFd)
    /\ OutHandle = Stdout
    /\ BothHandle = MultiWriter(LogHandle, OutHandle)
    /\ Flag = DefaultFlag
    /\ NotePads = Rebuild(VarBlockNotePads, outputThreshold, logThreshold,
                          LogHandle, OutHandle, BothHandle, Flag)
    /\ wrote = <<>>
    /\ op = NoOp
    /\ halted = FALSE
    /\ pc = [t \in Threads |-> "start"]
    /\ idx = [t \in Threads |-> LevelTrace]
    /\ tmp = [t \in Threads |-> <<>>]
    /\ arg \in [Threads -> ConcArgs]
    /\ overlapped = FALSE

NextConc ==
    \/ \E t \in Threads : T_Assign(t)
    \/ \E t \in Threads : T_Both(t)
    \/ \E t \in Threads : T_If1Out(t)
    \/ \E t \in Threads : T_If1Log(t)
    \/ \E t \in Threads : T_If2Out(t)
    \/ \E t \in Threads : T_If2Log(t)
    \/ \E t \in Threads : T_If3Out(t)
    \/ \E t \in Threads : T_If3Log(t)
    \/ \E t \in Threads : T_SetHandle(t)
    \/ \E t \in Threads : T_ReadHandle(t)
    \/ \E t \in Threads : T_NewLogger(t)

SpecConc == InitConc /\ [][NextConc]_vars

\* ================================================================ claims
PrintNames == {"Print", "Printf", "Println"}
FatalNames == {"Fatal", "Fatalf", "Fatalln"}
PanicNames == {"Panic", "Panicf", "Panicln"}

\* The base sinks the most recent call wrote to.
SinksWritten == {wrote[i].sink : i \in 1..Len(wrote)}
LogSink == LogHandle[1]
ConsoleSink == OutHandle[1]

\* The four-way rule, stated on the thresholds: which sinks level l goes to.
RuleDestination(l) ==
    IF l < logThreshold /\ l < outputThreshold THEN Discard
    ELSE IF l >= logThreshold /\ l >= outputThreshold THEN <<LogSink, ConsoleSink>>
    ELSE IF l >= outputThreshold THEN <<ConsoleSink>>
    ELSE <<LogSink>>

\* C1: in every state reached through the setters, each of the seven writers
\* is on the destination the four-way rule gives for the current thresholds
\* and the current sinks: discard when below both thresholds, the combined
\* sink (log then console) when at or above both, the console sink when only
\* the stdout threshold is cleared, the log sink when only the log threshold
\* is cleared; and conversely a writer on the combined, console or (file) log
\* sink is in the corresponding threshold case.
C1_Resolution ==
    /\ BothHandle = MultiWriter(LogHandle, OutHandle)
    /\ \A l \in Levels :
        LET h == NotePads[l].Handle
            below == l < logThreshold /\ l < outputThreshold
            above == l >= logThreshold /\ l >= outputThreshold
            console == l >= outputThreshold /\ l < logThreshold
            logonly == l >= logThreshold /\ l < outputThreshold
        IN  /\ NotePads[l].Logger.out = h
            /\ below => h = Discard
            /\ above => h = BothHandle
            /\ console => h = OutHandle
            /\ logonly => h = LogHandle
            /\ h = BothHandle => above
            /\ h = OutHandle => console
            /\ (h = LogHandle /\ LogHandle # Discard) => logonly
            /\ (h = Discard /\ LogHandle # Discard) => below

\* C1 witness: a log file is set and discard, console-only and combined
\* writers exist side by side.
C1_Witness ==
    /\ LogHandle # Discard
    /\ op.name = "SetLogThreshold"
    /\ NotePads[LevelTrace].Handle = Discard
    /\ NotePads[LevelWarn].Handle = OutHandle
    /\ NotePads[LevelFatal].Handle = BothHandle

\* C2: a Print / Printf / Println on the writer of level l writes its line to
\* the console sink iff l >= stdout threshold, to the log sink iff
\* l >= log threshold, and writes nothing iff l is below both; the two
\* scenarios of the specification are instances.
C2_Delivery ==
    op.name \in PrintNames =>
        /\ (ConsoleSink \in SinksWritten) <=> (op.arg >= outputThreshold)
        /\ (LogSink \in SinksWritten) <=> (op.arg >= logThreshold)
        /\ (wrote = <<>>) <=> (op.arg < outputThreshold /\ op.arg < logThreshold)
        /\ SinksWritten \subseteq {ConsoleSink, LogSink}
        /\ \A i \in 1..Len(wrote) :
              /\ wrote[i].prefix = Prefix(op.arg)
              /\ wrote[i].flag = Flag
              /\ wrote[i].text = op.name
        /\ (logThreshold = LevelInfo /\ outputThreshold = LevelInfo) =>
              /\ op.arg = LevelDebug => wrote = <<>>
              /\ op.arg \in {LevelInfo, LevelWarn} => SinksWritten = {LogSink, ConsoleSink}
        /\ (logThreshold = LevelError /\ outputThreshold = LevelInfo) =>
              /\ op.arg = LevelWarn => SinksWritten = {ConsoleSink}
              /\ op.arg = LevelError => SinksWritten = {LogSink, ConsoleSink}

\* C2 witness: logThreshold = Error, stdoutThreshold = Info, a log file is
\* set and a Warn emit has reached the console only.
C2_Witness ==
    /\ op.name = "Println" /\ op.arg = LevelWarn
    /\ logThreshold = LevelError /\ outputThreshold = LevelInfo
    /\ LogHandle # Discard
    /\ SinksWritten = {ConsoleSink}

\* The clamp of an integer into [Trace, Fatal].
Clamped(v) == IF v < LevelTrace THEN LevelTrace ELSE IF v >= LevelFatal THEN LevelFatal ELSE v

\* C3: SetLogThreshold(v) / SetStdoutThreshold(v) leave the threshold at v
\* clamped into [Trace, Fatal], and both thresholds always lie in that range.
C3_Clamp ==
    /\ logThreshold \in LevelTrace..LevelFatal
    /\ outputThreshold \in LevelTrace..LevelFatal
    /\ op.name = "SetLogThreshold" => logThreshold = Clamped(op.arg)
    /\ op.name = "SetStdoutThreshold" => outputThreshold = Clamped(op.arg)

\* C3 witness: SetLogThreshold(LevelNone) has left the threshold at Fatal.
C3_Witness ==
    /\ op.name = "SetLogThreshold" /\ op.arg = LevelNone
    /\ logThreshold = LevelFatal

\* C4: a SetLogFile call that fails to open returns an error and changes
\* neither the sinks, the thresholds, the flags, the writers nor the open
\* files; an emit right after it at a level at or above the log threshold is
\* written to the log sink that was current when the call failed.
C4_FailedOpenKeepsSink ==
    [][/\ (op'.name = "SetLogFile" /\ op'.ret = "error") => UNCHANGED <<cfgVars, fileVars>>
       /\ (/\ op.name = "SetLogFile" /\ op.ret = "error"
           /\ op'.name \in PrintNames /\ op'.arg >= logThreshold)
          => \E i \in 1..Len(wrote') : wrote'[i].sink = LogSink]_vars

\* C4 witness: SetLogFile has failed while a log file opened earlier is the
\* log sink.
C4_Witness ==
    /\ op.name = "SetLogFile" /\ op.ret = "error"
    /\ LogHandle = FileWriter(FirstFd)
    /\ FirstFd \in openFiles

\* C5 as stated: every failing SetLogFile writes a Critical line, whatever
\* the thresholds.
C5_Original ==
    (op.name = "SetLogFile" /\ op.ret = "error") =>
        /\ wrote # <<>>
        /\ \A i \in 1..Len(wrote) : wrote[i].prefix = Prefix(LevelCritical)

\* C5 amended: a failing SetLogFile writes a Critical line iff Critical is at
\* or above at least one threshold (to the console iff Critical >= stdout
\* threshold, to the log sink iff Critical >= log threshold); with both
\* thresholds at Fatal nothing is written; the error is returned either way.
C5_Amended ==
    (op.name = "SetLogFile" /\ op.ret = "error") =>
        /\ (wrote # <<>>) <=> (LevelCritical >= logThreshold \/ LevelCritical >= outputThreshold)
        /\ (ConsoleSink \in SinksWritten) <=> (LevelCritical >= outputThreshold)
        /\ (LogSink \in SinksWritten) <=> (LevelCritical >= logThreshold)
        /\ \A i \in 1..Len(wrote) :
              /\ wrote[i].prefix = Prefix(LevelCritical)
              /\ wrote[i].text = "Failed to open log file:"
        /\ (logThreshold = LevelFatal /\ outputThreshold = LevelFatal) => wrote = <<>>

\* C5 witness: a failing SetLogFile has written its Critical line to the
\* console and to a log file.
C5_Witness ==
    /\ op.name = "SetLogFile" /\ op.ret = "error"
    /\ Len(wrote) = 2
    /\ LogHandle # Discard

\* C6 as stated: a Fatal / Fatalf / Fatalln call at any level under any
\* thresholds writes and terminates the process; a Panic / Panicf / Panicln
\* call at any level writes and raises a fault.
C6_FatalAlwaysTerminates ==
    /\ op.name \in FatalNames => (wrote # <<>> /\ op.ret = "exit" /\ halted)
    /\ op.name \in PanicNames => (wrote # <<>> /\ op.ret = "panic")

\* C7 as stated: at most one file opened by SetLogFile is open at any time,
\* and an open one is the current log sink.
C7_ReplacedFileClosed ==
    /\ Cardinality(openFiles) <= 1
    /\ \A fd \in openFiles : LogHandle = FileWriter(fd)

\* What a writer is on, up to the identity of the log file descriptor.
Kind(h) ==
    [i \in 1..Len(h) |->
        IF h[i] = DiscardSink THEN "discard" ELSE IF h[i] = StdoutSink THEN "console" ELSE "log"]

Resolutions ==
    <<logThreshold, outputThreshold, Flag,
      [l \in Levels |-> <<Kind(NotePads[l].Handle), Kind(NotePads[l].Logger.out),
                          NotePads[l].Logger.flag>>]>>

\* C8: a setter called a second time in a row with the same argument (for
\* SetLogFile: both calls successful) leaves the thresholds, the flags and
\* the resolution of each of the seven writers as the first call left them.
C8_Idempotent ==
    [][(/\ op'.name \in {"SetLogThreshold", "SetStdoutThreshold", "SetLogFlag", "SetLogFile"}
        /\ op'.ret = "nil"
        /\ op.name = op'.name /\ op.arg = op'.arg /\ op.ret = "nil")
       => Resolutions' = Resolutions]_vars

\* C8 witness: SetLogFile has succeeded twice on the same path.
C8_Witness ==
    /\ op.name = "SetLogFile" /\ op.ret = "nil"
    /\ Len(fdPath) = 2 /\ fdPath[1] = fdPath[2] /\ fdPath[1] = op.arg
    /\ LogHandle = FileWriter(FirstFd + 1)

\* C9: whatever was passed to the threshold setters, the FATAL writer is on
\* the combined sink, checkLevel lets it through, and every emit on it is
\* written to the log sink and to the console sink.
C9_FatalNeverSilenced ==
    /\ NotePads[LevelFatal].Handle = MultiWriter(LogHandle, OutHandle)
    /\ NotePads[LevelFatal].Logger.out = MultiWriter(LogHandle, OutHandle)
    /\ checkLevel(NotePads[LevelFatal])
    /\ (op.arg = LevelFatal /\ op.name \in PrintNames \cup FatalNames \cup PanicNames)
          => [i \in 1..Len(wrote) |-> wrote[i].sink] = <<LogSink, ConsoleSink>>

\* C9 witness: both thresholds were pushed to the top with LevelNone.
C9_Witness ==
    /\ op.name = "SetStdoutThreshold" /\ op.arg = LevelNone
    /\ logThreshold = LevelFatal /\ outputThreshold = LevelFatal
    /\ NotePads[LevelCritical].Handle = Discard

AllReturned == \A t \in Threads : pc[t] = "done"

\* C10 as stated: once both concurrent calls have returned, every writer is
\* on the destination the rule gives for the final threshold pair.
C10_Original ==
    AllReturned => \A l \in Levels : NotePads[l].Handle = RuleDestination(l)

\* C10 amended: if the two calls did not overlap (one returned before the
\* other made its threshold assignment), then once both have returned every
\* writer, and the logger built on it, is on the destination the rule gives
\* for the final threshold pair.
C10_Amended ==
    (AllReturned /\ ~overlapped) =>
        \A l \in Levels :
            /\ NotePads[l].Handle = RuleDestination(l)
            /\ NotePads[l].Logger.out = RuleDestination(l)

\* C10 witness: both calls have returned without overlapping and left a
\* log-only writer and a discarded one.
C10_Witness ==
    /\ AllReturned /\ ~overlapped
    /\ logThreshold = LevelDebug /\ outputThreshold = LevelError
    /\ LogHandle # Discard
    /\ NotePads[LevelWarn].Handle = LogHandle
    /\ NotePads[LevelTrace].Handle = Discard

====
